---- MODULE Spec2Model ----
(***************************************************************************)
(* A model of GraphExecutor (src/src/executor/graph_executor.ts): the      *)
(* static compiler, the input check, the interpreted execute path, the     *)
(* dynamic (control-flow) scheduler of executeAsync and its cleanup pass.  *)
(*                                                                         *)
(* An input name "node:index" of the source is kept in its parsed form     *)
(* <<node, index>>; a frame-qualified name "node-ctxId" is kept as the     *)
(* pair <<node, ctxId>>, where ctxId is the sequence of <<frame, iter>>    *)
(* pairs of the frames it was formed from.                                 *)
(***************************************************************************)
EXTENDS Integers, Sequences, FiniteSets, TLC

VARIABLES
  graph,          \* the Graph given to the constructor
  caller,         \* the program that uses the executor: how many calls it
                  \* makes and whether it awaits each before the next
  phase,          \* "new", "constructed" (compile has run), "ready" (weights set)
  compiledOrder,  \* this.compiledOrder, as node names
  weightMap,      \* this._weightMap: name -> tensors
  weightIds,      \* this.weightIds
  nextId,         \* the id the next created tensor gets
  disposals,      \* the ids tensor.dispose() was called on, in order
  calls,          \* the execute / executeAsync calls, by call slot
  compiledWebMLModel, model, operandInfos, operandIndex, compilation,
  execution,      \* the fields of the accelerated path
  backendLog      \* how often each method of the accelerated backend was called

accel == <<compiledWebMLModel, model, operandInfos, operandIndex, compilation,
           execution, backendLog>>

vars == <<graph, caller, phase, compiledOrder, weightMap, weightIds, nextId,
          disposals, calls, accel>>

(***************************************************************************)
(* Bounds of the model.                                                    *)
(***************************************************************************)
\* nodes of a generated control-flow-free graph
MaxNodes == 3
\* the largest trip count of the loop graph
MaxIter == 2
\* the execute / executeAsync calls of one run
MaxCalls == 1

(***************************************************************************)
(* Sequence helpers.                                                       *)
(***************************************************************************)
Range(s) == {s[i] : i \in 1..Len(s)}

RECURSIVE SeqOfSet(_)
SeqOfSet(S) ==
  IF S = {} THEN <<>>
  ELSE LET m == CHOOSE x \in S : \A y \in S : x <= y
       IN <<m>> \o SeqOfSet(S \ {m})

RECURSIVE Flatten(_)
Flatten(ss) == IF ss = <<>> THEN <<>> ELSE Head(ss) \o Flatten(Tail(ss))

(***************************************************************************)
(* The Graph and Node objects the executor is given.  A graph is the       *)
(* sequence of its nodes in the order of the graph definition; a node has  *)
(* a name, an op and its inputNames.  graph.inputs, node.children,         *)
(* graph.placeholders and graph.outputs are fields the graph loader        *)
(* fills in: inputs are the nodes without inputs, a node's children hold   *)
(* one entry per input name that refers to it.                             *)
(***************************************************************************)
Node(name, op, inputNames) ==
  [name |-> name, op |-> op, inputNames |-> inputNames, frameName |-> "",
   pad |-> "same", dataFormat |-> "NHWC", dilations |-> <<1, 1, 1, 1>>]

EnterNode(name, inputNames, frameName) ==
  [Node(name, "enter", inputNames) EXCEPT !.frameName = frameName]

NodeNames(g) == {g.nodes[i].name : i \in 1..Len(g.nodes)}

NodeOf(g, name) ==
  g.nodes[CHOOSE i \in 1..Len(g.nodes) : g.nodes[i].name = name]

\* getNodeNameAndIndex(name) without a context: the node-name part
InputNode(inputName) == inputName[1]

GraphInputs(g) ==
  LET src == SelectSeq(g.nodes, LAMBDA n : n.inputNames = <<>>)
  IN [i \in 1..Len(src) |-> src[i].name]

\* the entries node `child` adds to the children of `name`
RefsTo(child, name) ==
  LET hits == SelectSeq(child.inputNames, LAMBDA inp : InputNode(inp) = name)
  IN [i \in 1..Len(hits) |-> child.name]

Children(g, name) ==
  Flatten([i \in 1..Len(g.nodes) |-> RefsTo(g.nodes[i], name)])

Placeholders(g) ==
  LET ps == SelectSeq(g.nodes, LAMBDA n : n.op = "placeholder")
  IN [i \in 1..Len(ps) |-> ps[i].name]

(***************************************************************************)
(* GraphExecutor.compile: the static order.                                *)
(***************************************************************************)
\* a mutant of compileReady: one visited input is enough
compileReadyAny(g, child, visited) ==
  /\ child \notin visited
  /\ \E i \in 1..Len(NodeOf(g, child).inputNames) :
        InputNode(NodeOf(g, child).inputNames[i]) \in visited

\* the guard of stack.push(childNode)
compileReady(g, child, visited) ==
  /\ child \notin visited
  /\ \A i \in 1..Len(NodeOf(g, child).inputNames) :
        InputNode(NodeOf(g, child).inputNames[i]) \in visited

RECURSIVE compileLoop(_, _, _, _)
compileLoop(g, stack, visited, order) ==
  IF stack = <<>> THEN order
  ELSE LET node == stack[Len(stack)]
           rest == SubSeq(stack, 1, Len(stack) - 1)
           vis == visited \cup {node}
           pushed == SelectSeq(Children(g, node),
                               LAMBDA ch : compileReady(g, ch, vis))
       IN compileLoop(g, rest \o pushed, vis, Append(order, node))

compile(g) ==
  IF g.withControlFlow THEN <<>>
  ELSE compileLoop(g, GraphInputs(g), {}, <<>>)

(***************************************************************************)
(* Generated control-flow-free graphs: every acyclic graph of at most      *)
(* MaxNodes nodes in which a node has at most two input names, the same    *)
(* producer possibly named twice.                                          *)
(***************************************************************************)
GenNames == <<"n1", "n2", "n3", "n4", "n5", "n6">>

InputChoices(k, self) ==
  LET others == (1..k) \ {self}
  IN {<<>>}
     \cup {<<a>> : a \in others}
     \cup {<<p[1], p[2]>> : p \in {q \in others \X others : q[1] <= q[2]}}

RECURSIVE AcyclicFrom(_, _)
AcyclicFrom(f, remaining) ==
  IF remaining = {} THEN TRUE
  ELSE LET free == {n \in remaining : Range(f[n]) \cap remaining = {}}
       IN IF free = {} THEN FALSE ELSE AcyclicFrom(f, remaining \ free)

GenGraph(k, f) ==
  [kind |-> "gen",
   withControlFlow |-> FALSE,
   nodes |-> [i \in 1..k |->
                Node(GenNames[i],
                     IF f[i] = <<>> THEN "placeholder" ELSE "add",
                     [j \in 1..Len(f[i]) |-> <<GenNames[f[i][j]], 0>>])],
   weights |-> <<>>,
   outputs |-> <<GenNames[k]>>]

AllInputChoices(k) == UNION {InputChoices(k, s) : s \in 1..k}

\* f gives every node of a k-node graph its inputs, without a cycle
IsGenInputs(k, f) ==
  /\ \A i \in 1..k : f[i] \in InputChoices(k, i)
  /\ AcyclicFrom(f, 1..k)

(***************************************************************************)
(* The control-flow graphs and the small static graphs the executor is     *)
(* run on.  weights lists the const nodes with the value of their tensor.  *)
(***************************************************************************)
\* placeholder x, const c, y = add(x, c)
LinearGraph ==
  [kind |-> "linear",
   withControlFlow |-> FALSE,
   nodes |-> <<Node("x", "placeholder", <<>>),
               Node("c", "const", <<>>),
               Node("y", "add", <<<<"x", 0>>, <<"c", 0>>>>)>>,
   weights |-> <<<<"c", 5>>>>,
   outputs |-> <<"y">>]

\* placeholder x, s = mul(x, x), y = identity(s)
SquareGraph ==
  [kind |-> "square",
   withControlFlow |-> FALSE,
   nodes |-> <<Node("x", "placeholder", <<>>),
               Node("s", "mul", <<<<"x", 0>>, <<"x", 0>>>>),
               Node("y", "identity", <<<<"s", 0>>>>)>>,
   weights |-> <<>>,
   outputs |-> <<"y">>]

\* a conditional: sw = switch(x, p); a on the false branch, b on the true
\* branch; m = merge(a, b); y = add(m, c)
CondGraph ==
  [kind |-> "cond",
   withControlFlow |-> TRUE,
   nodes |-> <<Node("p", "placeholder", <<>>),
               Node("x", "placeholder", <<>>),
               Node("c", "const", <<>>),
               Node("sw", "switch", <<<<"x", 0>>, <<"p", 0>>>>),
               Node("a", "neg", <<<<"sw", 0>>>>),
               Node("b", "add", <<<<"sw", 1>>, <<"c", 0>>>>),
               Node("m", "merge", <<<<"a", 0>>, <<"b", 0>>>>),
               Node("y", "identity", <<<<"m", 0>>>>)>>,
   weights |-> <<<<"c", 1>>>>,
   outputs |-> <<"y">>]

\* a while loop over frame "L": i starts at x and is incremented while
\* i < limit
LoopGraph(limit) ==
  [kind |-> "loop",
   withControlFlow |-> TRUE,
   nodes |-> <<Node("x", "placeholder", <<>>),
               Node("one", "const", <<>>),
               Node("limit", "const", <<>>),
               EnterNode("enter", <<<<"x", 0>>>>, "L"),
               Node("merge", "merge", <<<<"enter", 0>>, <<"next", 0>>>>),
               Node("less", "less", <<<<"merge", 0>>, <<"limit", 0>>>>),
               Node("cond", "loopCond", <<<<"less", 0>>>>),
               Node("sw", "switch", <<<<"merge", 0>>, <<"cond", 0>>>>),
               Node("exit", "exit", <<<<"sw", 0>>>>),
               Node("body", "add", <<<<"sw", 1>>, <<"one", 0>>>>),
               Node("next", "nextIteration", <<<<"body", 0>>>>)>>,
   weights |-> <<<<"one", 1>>, <<"limit", limit>>>>,
   outputs |-> <<"exit">>]

\* placeholder x, y = softmax(x)
SoftmaxGraph ==
  [kind |-> "softmax",
   withControlFlow |-> FALSE,
   nodes |-> <<Node("x", "placeholder", <<>>),
               Node("y", "softmax", <<<<"x", 0>>>>)>>,
   weights |-> <<>>,
   outputs |-> <<"y">>]

(***************************************************************************)
(* Graphs of the accelerated vocabulary.  params gives the pad, dataFormat *)
(* and dilations of the conv or pool node; tail says what follows it.      *)
(***************************************************************************)
Params(pad, dataFormat, dilations) ==
  [pad |-> pad, dataFormat |-> dataFormat, dilations |-> dilations]

DefaultParams == Params("same", "NHWC", <<1, 1, 1, 1>>)

ParamNode(name, op, inputNames, params) ==
  [Node(name, op, inputNames) EXCEPT !.pad = params.pad,
                                     !.dataFormat = params.dataFormat,
                                     !.dilations = params.dilations]

\* placeholder x, consts w and b, conv = op(x, w), then
\*   "biasClip": add(conv, b), relu = clipByValue(add)
\*   "bias":     add(conv, b), sm = softmax(add)
\*   "biasLast": add(conv, b)
\*   "none":     sm = softmax(conv)
ConvGraph(op, params, tail) ==
  [kind |-> "conv",
   withControlFlow |-> FALSE,
   nodes |-> <<Node("x", "placeholder", <<>>),
               Node("w", "const", <<>>),
               Node("b", "const", <<>>),
               ParamNode("conv", op, <<<<"x", 0>>, <<"w", 0>>>>, params)>>
             \o (CASE tail = "biasClip" ->
                        <<Node("add", "add", <<<<"conv", 0>>, <<"b", 0>>>>),
                          Node("relu", "clipByValue", <<<<"add", 0>>>>)>>
                    [] tail = "bias" ->
                        <<Node("add", "add", <<<<"conv", 0>>, <<"b", 0>>>>),
                          Node("sm", "softmax", <<<<"add", 0>>>>)>>
                    [] tail = "biasLast" ->
                        <<Node("add", "add", <<<<"conv", 0>>, <<"b", 0>>>>)>>
                    [] OTHER ->
                        <<Node("sm", "softmax", <<<<"conv", 0>>>>)>>),
   weights |-> <<<<"w", 1>>, <<"b", 1>>>>,
   outputs |-> <<CASE tail = "biasClip" -> "relu"
                   [] tail = "biasLast" -> "add"
                   [] OTHER -> "sm">>]

\* placeholder x, pool = avgPool(x), then
\*   "clip": relu = clipByValue(pool);  "plain": sm = softmax(pool);
\*   "last": nothing
PoolGraph(params, tail) ==
  [kind |-> "pool",
   withControlFlow |-> FALSE,
   nodes |-> <<Node("x", "placeholder", <<>>),
               ParamNode("pool", "avgPool", <<<<"x", 0>>>>, params)>>
             \o (CASE tail = "clip" ->
                        <<Node("relu", "clipByValue", <<<<"pool", 0>>>>)>>
                    [] tail = "plain" ->
                        <<Node("sm", "softmax", <<<<"pool", 0>>>>)>>
                    [] OTHER -> <<>>),
   weights |-> <<>>,
   outputs |-> <<CASE tail = "clip" -> "relu"
                   [] tail = "plain" -> "sm"
                   [] OTHER -> "pool">>]

\* a node u of an op outside the vocabulary:
\*   "side":   y = softmax(x), u = relu(x), output y
\*   "middle": u = relu(x), y = softmax(u), output y
\*   "last":   y = softmax(x), u = relu(y), output u
UnsupportedGraph(position) ==
  [kind |-> "unsupported",
   withControlFlow |-> FALSE,
   nodes |-> <<Node("x", "placeholder", <<>>)>>
             \o (CASE position = "side" ->
                        <<Node("y", "softmax", <<<<"x", 0>>>>),
                          Node("u", "relu", <<<<"x", 0>>>>)>>
                    [] position = "middle" ->
                        <<Node("u", "relu", <<<<"x", 0>>>>),
                          Node("y", "softmax", <<<<"u", 0>>>>)>>
                    [] OTHER ->
                        <<Node("y", "softmax", <<<<"x", 0>>>>),
                          Node("u", "relu", <<<<"y", 0>>>>)>>),
   weights |-> <<>>,
   outputs |-> <<IF position = "last" THEN "u" ELSE "y">>]

\* placeholder x, q = squeeze(x), y = softmax(q)
SqueezeGraph ==
  [kind |-> "squeeze",
   withControlFlow |-> FALSE,
   nodes |-> <<Node("x", "placeholder", <<>>),
               Node("q", "squeeze", <<<<"x", 0>>>>),
               Node("y", "softmax", <<<<"q", 0>>>>)>>,
   weights |-> <<>>,
   outputs |-> <<"y">>]

ParamChoices ==
  {DefaultParams,
   Params("valid", "NHWC", <<1, 1, 1, 1>>),
   Params("explicit", "NHWC", <<1, 1, 1, 1>>),
   Params("same", "NCHW", <<1, 1, 1, 1>>),
   Params("same", "NHWC", <<1, 2, 2, 1>>)}

AccelGraphs ==
  {SoftmaxGraph, SqueezeGraph}
    \cup {ConvGraph(op, params, "biasClip") :
            op \in {"conv2d", "depthwiseConv2d"}, params \in ParamChoices}
    \cup {ConvGraph(op, DefaultParams, tail) :
            op \in {"conv2d", "depthwiseConv2d"},
            tail \in {"bias", "biasLast", "none"}}
    \cup {PoolGraph(params, "clip") : params \in ParamChoices}
    \cup {PoolGraph(DefaultParams, tail) : tail \in {"plain", "last"}}
    \cup {UnsupportedGraph(position) : position \in {"side", "middle", "last"}}

\* graphs whose accelerated compilation completes
OverlapGraphs ==
  {SoftmaxGraph, ConvGraph("conv2d", DefaultParams, "biasClip")}

MainGraphs ==
  {LinearGraph, SquareGraph, SoftmaxGraph, CondGraph}
    \cup {LoopGraph(n) : n \in 0..MaxIter}

GraphOutputs(g) == g.outputs

(***************************************************************************)
(* Tensors: an identity and a value.  Undef stands for undefined.          *)
(***************************************************************************)
Tensor(id, val) == [id |-> id, val |-> val]

Undef == Tensor(0, 0)

(***************************************************************************)
(* ExecutionContext: the frames below the root frame, innermost last.      *)
(***************************************************************************)
RootContext == <<>>

\* currentContextIds: the id of the current frames, then of every enclosing
\* frame stack, the root ('') last
ContextIds(ctx) ==
  [i \in 1..(Len(ctx) + 1) |-> SubSeq(ctx, 1, Len(ctx) + 1 - i)]

enterFrame(ctx, frameName) == Append(ctx, <<frameName, 0>>)

exitFrame(ctx) == SubSeq(ctx, 1, Len(ctx) - 1)

nextIteration(ctx) ==
  [ctx EXCEPT ![Len(ctx)] = <<ctx[Len(ctx)][1], ctx[Len(ctx)][2] + 1>>]

\* getNodeNameAndIndex(name, context): the frame-qualified name
QualifiedName(name, ctx) == <<name, ctx>>

\* getTensor(name, tensorMap, context)
getTensor(inputName, tensorMap, ctx) ==
  LET ids == ContextIds(ctx)
      hits == {i \in 1..Len(ids) : <<inputName[1], ids[i]>> \in DOMAIN tensorMap}
  IN IF hits = {} THEN Undef
     ELSE LET first == CHOOSE i \in hits : \A j \in hits : i <= j
              arr == tensorMap[<<inputName[1], ids[first]>>]
          IN IF inputName[2] + 1 <= Len(arr)
             THEN arr[inputName[2] + 1] ELSE Undef

Put(f, k, v) == [x \in DOMAIN f \cup {k} |-> IF x = k THEN v ELSE f[x]]

(***************************************************************************)
(* operations.executeOp(node, tensorMap, context): the outputs, the        *)
(* context the operator leaves, the number of tensors it created and       *)
(* whether it threw.                                                       *)
(***************************************************************************)
OpResult(out, ctx, made, err) ==
  [out |-> out, ctx |-> ctx, made |-> made, err |-> err]

executeOp(node, tensorMap, ctx, id) ==
  LET in(i) == getTensor(node.inputNames[i], tensorMap, ctx)
      n == Len(node.inputNames)
      anyUndef == \E i \in 1..n : in(i) = Undef
      RECURSIVE Sum(_)
      Sum(i) == IF i = 0 THEN 0 ELSE in(i).val + Sum(i - 1)
  IN CASE node.op = "placeholder" ->
            OpResult(<<getTensor(<<node.name, 0>>, tensorMap, ctx)>>, ctx, 0, FALSE)
       [] node.op = "const" ->
            OpResult(IF <<node.name, RootContext>> \in DOMAIN tensorMap
                       THEN tensorMap[<<node.name, RootContext>>]
                       ELSE <<Undef>>, ctx, 0, FALSE)
       [] node.op \in {"identity", "loopCond"} ->
            OpResult(<<in(1)>>, ctx, 0, FALSE)
       [] node.op = "switch" ->
            IF in(2) = Undef THEN OpResult(<<>>, ctx, 0, TRUE)
            ELSE OpResult(IF in(2).val # 0 THEN <<Undef, in(1)>>
                                           ELSE <<in(1), Undef>>, ctx, 0, FALSE)
       [] node.op = "merge" ->
            LET live == {i \in 1..n : in(i) # Undef}
            IN OpResult(IF live = {} THEN <<Undef>>
                        ELSE <<in(CHOOSE i \in live : \A j \in live : i <= j)>>,
                        ctx, 0, FALSE)
       [] node.op = "enter" ->
            OpResult(<<in(1)>>, enterFrame(ctx, node.frameName), 0, FALSE)
       [] node.op = "exit" ->
            IF ctx = RootContext THEN OpResult(<<>>, ctx, 0, TRUE)
            ELSE OpResult(<<in(1)>>, exitFrame(ctx), 0, FALSE)
       [] node.op = "nextIteration" ->
            IF ctx = RootContext THEN OpResult(<<>>, ctx, 0, TRUE)
            ELSE OpResult(<<in(1)>>, nextIteration(ctx), 0, FALSE)
       [] node.op = "less" ->
            IF anyUndef THEN OpResult(<<>>, ctx, 0, TRUE)
            ELSE OpResult(<<Tensor(id, IF in(1).val < in(2).val THEN 1 ELSE 0)>>,
                          ctx, 1, FALSE)
       [] OTHER ->
            IF anyUndef THEN OpResult(<<>>, ctx, 0, TRUE)
            ELSE OpResult(<<Tensor(id, Sum(n))>>, ctx, 1, FALSE)

\* the ops that compute a tensor; the others forward one of their inputs
ForwardingOps ==
  {"placeholder", "const", "identity", "loopCond", "switch", "merge", "enter",
   "exit", "nextIteration"}

\* one invocation of executeOp: a computing operator may throw on its own
\* account (throws), whatever its inputs
dispatchOp(node, tensorMap, ctx, id, throws) ==
  IF throws /\ node.op \notin ForwardingOps
    THEN OpResult(<<>>, ctx, 0, TRUE)
  ELSE executeOp(node, tensorMap, ctx, id)

(***************************************************************************)
(* One execute / executeAsync call: its arguments, its position and the    *)
(* objects it owns (ExecutionContext, tensorMap, stack, added).  log is    *)
(* the history of its operator dispatches.                                 *)
(***************************************************************************)
\* the call slots: a caller of the accelerated path or of overlapping calls
\* makes one call more than MaxCalls
CallIds == 1..(MaxCalls + 1)

\* a caller that makes n calls and awaits each (or not) before the next;
\* an exact caller passes the declared placeholders and names no outputs
Caller(n, awaits, exact) == [calls |-> n, awaits |-> awaits, exact |-> exact]

\* the backend model the executor holds, before createModel
NoModel ==
  [id |-> 0, operands |-> <<>>, values |-> {}, operations |-> <<>>,
   io |-> <<>>, finished |-> FALSE]

NewModel(id) == [NoModel EXCEPT !.id = id]

\* the methods of the accelerated backend the executor awaits or calls
\* outside the model-building pass
BackendMethods ==
  {"createModel", "finish", "createCompilation", "setPreference",
   "compilationFinish", "createExecution", "setInput", "setOutput",
   "startCompute"}

\* the backend log after one call of each of the methods
Called(log, methods) ==
  [m \in BackendMethods |-> IF m \in methods THEN log[m] + 1 ELSE log[m]]

NoError == [kind |-> "none", names |-> <<>>]

IdleCall ==
  [pc |-> "idle", entry |-> "none", backend |-> "none",
   inputKeys |-> <<>>, inputs |-> <<>>,
   hasOutputs |-> FALSE, outputs |-> <<>>,
   ctx |-> RootContext, stack |-> <<>>,
   tensorMap |-> <<>>, keyOrder |-> <<>>, added |-> {},
   log |-> <<>>, result |-> <<>>, error |-> NoError,
   \* the backend object the call's pending await delivers
   pending |-> 0]

InitExecutor ==
  /\ phase = "new"
  /\ compiledOrder = <<>>
  /\ weightMap = <<>>
  /\ weightIds = {}
  /\ nextId = 1
  /\ disposals = <<>>
  /\ calls = [c \in CallIds |-> IdleCall]
  /\ compiledWebMLModel = FALSE
  /\ model = NoModel
  /\ operandInfos = <<>>
  /\ operandIndex = 0
  /\ compilation = 0
  /\ execution = 0
  /\ backendLog = [m \in BackendMethods |-> 0]

\* set weightMap(weightMap): the loader hands over one tensor per const node
SetWeightMap ==
  /\ phase = "constructed"
  /\ phase' = "ready"
  /\ LET w == graph.weights
     IN /\ weightMap' =
             [k \in {QualifiedName(w[i][1], RootContext) : i \in 1..Len(w)} |->
                LET i == CHOOSE j \in 1..Len(w) :
                           QualifiedName(w[j][1], RootContext) = k
                IN <<Tensor(nextId + i - 1, w[i][2])>>]
        /\ weightIds' = {nextId + i - 1 : i \in 1..Len(w)}
        /\ nextId' = nextId + Len(w)
  /\ UNCHANGED <<graph, caller, compiledOrder, disposals, calls, accel>>

WeightKeys == [i \in 1..Len(graph.weights) |->
                 QualifiedName(graph.weights[i][1], RootContext)]

(***************************************************************************)
(* The arguments a caller may pass: any selection of the placeholder names *)
(* and of one undeclared name, each with a tensor of its own; the          *)
(* requested outputs are left out or name one node.                        *)
(***************************************************************************)
ExtraName == "extra"

InputUniverse(g) == Placeholders(g) \o <<ExtraName>>

InputValues(name) == IF name = "p" THEN {0, 1} ELSE {0}

InputKeyChoices(g) ==
  IF caller.exact THEN {Placeholders(g)}
  ELSE {SelectSeq(InputUniverse(g), LAMBDA k : k \in S) :
          S \in SUBSET Range(InputUniverse(g))}

\* the node a caller asks for when it names an output itself
ProbeNames(g) ==
  CASE g.kind = "linear" -> <<"x", "c">>
    [] g.kind = "square" -> <<"s">>
    [] g.kind = "softmax" -> <<"x">>
    [] g.kind = "cond" -> <<"b">>
    [] g.kind = "loop" -> <<"body">>
    [] OTHER -> <<>>

OutputChoices(g) ==
  {[given |-> FALSE, names |-> <<>>]}
    \cup (IF caller.exact THEN {}
          ELSE {[given |-> TRUE, names |-> <<n>>] : n \in Range(ProbeNames(g))})

\* {...this.weightMap, ...inputs}
SeedTensorMap(inputKeys, inputs) ==
  LET ik == {QualifiedName(inputKeys[i], RootContext) : i \in 1..Len(inputKeys)}
  IN [k \in DOMAIN weightMap \cup ik |->
        IF k \in ik THEN inputs[k[1]] ELSE weightMap[k]]

SeedKeyOrder(inputKeys) ==
  WeightKeys \o
  SelectSeq([i \in 1..Len(inputKeys) |-> QualifiedName(inputKeys[i], RootContext)],
            LAMBDA k : k \notin Range(WeightKeys))

(***************************************************************************)
(* checkInput: the error it throws, if any.                                *)
(***************************************************************************)
\* a mutant of checkInput: the extra names are tested first
checkInputExtraFirst(placeholders, inputKeys) ==
  LET missing == SelectSeq(placeholders, LAMBDA n : n \notin Range(inputKeys))
      extra == SelectSeq(inputKeys, LAMBDA n : n \notin Range(placeholders))
  IN IF Len(extra) > 0 THEN [kind |-> "extra", names |-> extra]
     ELSE IF Len(missing) > 0 THEN [kind |-> "missing", names |-> missing]
     ELSE NoError

\* a mutant of checkInput: names that are not declared are let through
checkInputMissingOnly(placeholders, inputKeys) ==
  LET missing == SelectSeq(placeholders, LAMBDA n : n \notin Range(inputKeys))
  IN IF Len(missing) > 0 THEN [kind |-> "missing", names |-> missing]
     ELSE NoError

checkInput(placeholders, inputKeys) ==
  LET missing == SelectSeq(placeholders, LAMBDA n : n \notin Range(inputKeys))
      extra == SelectSeq(inputKeys, LAMBDA n : n \notin Range(placeholders))
  IN IF Len(missing) > 0 THEN [kind |-> "missing", names |-> missing]
     ELSE IF Len(extra) > 0 THEN [kind |-> "extra", names |-> extra]
     ELSE NoError

(***************************************************************************)
(* findOutputs: the requested names, each with getTensor's answer.         *)
(***************************************************************************)
RequestedOutputs(hasOutputs, outputs) ==
  IF hasOutputs THEN outputs ELSE GraphOutputs(graph)

findOutputs(tensorMap, ctx, hasOutputs, outputs) ==
  LET req == RequestedOutputs(hasOutputs, outputs)
  IN [n \in Range(req) |-> getTensor(<<n, 0>>, tensorMap, ctx)]

(***************************************************************************)
(* The constructor.                                                        *)
(***************************************************************************)
Construct ==
  /\ phase = "new"
  /\ phase' = "constructed"
  /\ compiledOrder' = compile(graph)
  /\ UNCHANGED <<graph, caller, weightMap, weightIds, nextId, disposals, calls, accel>>

InitCompile ==
  /\ \E k \in 1..MaxNodes :
       \E f \in [1..k -> AllInputChoices(k)] :
         /\ IsGenInputs(k, f)
         /\ graph = GenGraph(k, f)
  /\ caller = Caller(0, TRUE, FALSE)
  /\ InitExecutor

NextCompile == Construct

SpecCompile == InitCompile /\ [][NextCompile]_vars

(***************************************************************************)
(* The arguments of a call and the call slot they start in.                *)
(***************************************************************************)
InFlight(c) == calls[c].pc \notin {"idle", "done", "failed"}

\* the slots are used in order; a caller that awaits starts a call when the
\* calls before it have settled
CanStart(c) ==
  /\ phase = "ready"
  /\ c <= caller.calls
  /\ calls[c].pc = "idle"
  /\ \A d \in CallIds : d < c => calls[d].pc # "idle"
  /\ caller.awaits =>
       \A d \in CallIds : d < c => calls[d].pc \in {"done", "failed"}

\* the tensors the caller made for the input keys, with the given values
InputTensors(inputKeys, vals) ==
  [k \in Range(inputKeys) |->
     LET i == CHOOSE j \in 1..Len(inputKeys) : inputKeys[j] = k
     IN <<Tensor(nextId + i - 1, vals[k])>>]

StartedCall(entry, backend, inputKeys, inputs, out) ==
  [IdleCall EXCEPT !.entry = entry, !.backend = backend,
                   !.inputKeys = inputKeys, !.inputs = inputs,
                   !.hasOutputs = out.given, !.outputs = out.names]

DispatchRecord(node, ctx, r, tensorMap) ==
  [node |-> node.name, op |-> node.op, ctx |-> ctx, ctxAfter |-> r.ctx,
   out |-> r.out, threw |-> r.err,
   resolved |-> [i \in 1..Len(node.inputNames) |->
                   getTensor(node.inputNames[i], tensorMap, ctx) # Undef]]

(***************************************************************************)
(* execute on the webgl backend: checkInput, then inside tidy the reduce   *)
(* over compiledOrder and findOutputs; tidy disposes every tensor made     *)
(* inside it that is not returned.                                         *)
(***************************************************************************)
\* a mutant of runCompiledOrder: the reduce goes on after an operator threw
RECURSIVE runCompiledOrderGoesOn(_, _, _, _, _, _)
runCompiledOrderGoesOn(order, tensorMap, keyOrder, id, log, failAt) ==
  IF order = <<>>
    THEN [tensorMap |-> tensorMap, keyOrder |-> keyOrder, nextId |-> id,
          log |-> log, err |-> FALSE]
  ELSE LET node == NodeOf(graph, Head(order))
           r == dispatchOp(node, tensorMap, RootContext, id,
                           failAt = Len(log) + 1)
           key == QualifiedName(node.name, RootContext)
           rec == DispatchRecord(node, RootContext, r, tensorMap)
       IN runCompiledOrderGoesOn(Tail(order), Put(tensorMap, key, r.out),
                                 IF key \in Range(keyOrder) THEN keyOrder
                                 ELSE Append(keyOrder, key),
                                 id + r.made, Append(log, rec), failAt)

\* the reduce over the order; failAt is the position of the dispatch whose
\* operator throws on its own account, 0 for none
RECURSIVE runCompiledOrder(_, _, _, _, _, _)
runCompiledOrder(order, tensorMap, keyOrder, id, log, failAt) ==
  IF order = <<>>
    THEN [tensorMap |-> tensorMap, keyOrder |-> keyOrder, nextId |-> id,
          log |-> log, err |-> FALSE]
  ELSE LET node == NodeOf(graph, Head(order))
           r == dispatchOp(node, tensorMap, RootContext, id,
                           failAt = Len(log) + 1)
           key == QualifiedName(node.name, RootContext)
           rec == DispatchRecord(node, RootContext, r, tensorMap)
       IN IF r.err
            THEN [tensorMap |-> tensorMap, keyOrder |-> keyOrder, nextId |-> id,
                  log |-> Append(log, rec), err |-> TRUE]
          ELSE runCompiledOrder(Tail(order), Put(tensorMap, key, r.out),
                                IF key \in Range(keyOrder) THEN keyOrder
                                ELSE Append(keyOrder, key),
                                id + r.made, Append(log, rec), failAt)

\* the order the interpreted execute path walks
executeOrder == compiledOrder

\* the ids tidy disposes: made in [from, to), not among the returned tensors
tidyDisposals(from, to, result) ==
  SeqOfSet({i \in from..(to - 1) :
              \A n \in DOMAIN result : result[n].id # i})

ExecuteWebGL(c) ==
  /\ CanStart(c)
  /\ \E inputKeys \in InputKeyChoices(graph), out \in OutputChoices(graph) :
     \E vals \in [Range(inputKeys) -> {0, 1}], failAt \in 0..Len(executeOrder) :
       /\ \A k \in Range(inputKeys) : vals[k] \in InputValues(k)
       /\ LET inputs == InputTensors(inputKeys, vals)
              first == nextId + Len(inputKeys)
              base == StartedCall("execute", "webgl", inputKeys, inputs, out)
              chk == checkInput(Placeholders(graph), inputKeys)
              run == runCompiledOrder(executeOrder,
                                      SeedTensorMap(inputKeys, inputs),
                                      SeedKeyOrder(inputKeys), first, <<>>,
                                      failAt)
              res == findOutputs(run.tensorMap, RootContext, out.given, out.names)
          IN IF chk # NoError
               THEN /\ calls' = [calls EXCEPT ![c] =
                                   [base EXCEPT !.pc = "failed", !.error = chk]]
                    /\ nextId' = first
                    /\ UNCHANGED disposals
             ELSE IF run.err
               THEN /\ calls' = [calls EXCEPT ![c] =
                          [base EXCEPT !.pc = "failed", !.log = run.log,
                                       !.tensorMap = run.tensorMap,
                                       !.keyOrder = run.keyOrder,
                                       !.error = [kind |-> "op", names |-> <<>>]]]
                    /\ nextId' = run.nextId
                    /\ disposals' = disposals \o SeqOfSet(first..(run.nextId - 1))
             ELSE /\ calls' = [calls EXCEPT ![c] =
                        [base EXCEPT !.pc = "done", !.log = run.log,
                                     !.tensorMap = run.tensorMap,
                                     !.keyOrder = run.keyOrder,
                                     !.result = res]]
                  /\ nextId' = run.nextId
                  /\ disposals' = disposals \o tidyDisposals(first, run.nextId, res)
  /\ UNCHANGED <<graph, caller, phase, compiledOrder, weightMap, weightIds, accel>>

(***************************************************************************)
(* executeAsync: executeWithControlFlow, one loop iteration per step (the  *)
(* call is suspended at the await of each iteration), then findOutputs     *)
(* and the disposal of the intermediate tensors.                           *)
(***************************************************************************)
\* a mutant of schedulerReady: a merge waits for all of its inputs
schedulerReadyMergeWaits(child, tensorMap, ctx) ==
  \A i \in 1..Len(child.inputNames) :
     getTensor(child.inputNames[i], tensorMap, ctx) # Undef

\* a mutant of schedulerReady: one resolved input is enough for every node
schedulerReadyAny(child, tensorMap, ctx) ==
  \E i \in 1..Len(child.inputNames) :
     getTensor(child.inputNames[i], tensorMap, ctx) # Undef

\* the condition under which a child not yet added is pushed
schedulerReady(child, tensorMap, ctx) ==
  IF child.op = "merge"
    THEN \E i \in 1..Len(child.inputNames) :
           getTensor(child.inputNames[i], tensorMap, ctx) # Undef
    ELSE \A i \in 1..Len(child.inputNames) :
           getTensor(child.inputNames[i], tensorMap, ctx) # Undef

\* a mutant of pushChildren: the added set is not consulted
RECURSIVE pushChildrenNoGuard(_, _, _, _, _)
pushChildrenNoGuard(children, tensorMap, ctx, added, stack) ==
  IF children = <<>> THEN [added |-> added, stack |-> stack]
  ELSE LET child == NodeOf(graph, Head(children))
           key == QualifiedName(child.name, ctx)
       IN IF schedulerReady(child, tensorMap, ctx)
            THEN pushChildrenNoGuard(Tail(children), tensorMap, ctx,
                                     added \cup {key},
                                     Append(stack, [node |-> child.name,
                                                    contexts |-> ctx]))
          ELSE pushChildrenNoGuard(Tail(children), tensorMap, ctx, added, stack)

\* item.node.children.forEach(...)
RECURSIVE pushChildren(_, _, _, _, _)
pushChildren(children, tensorMap, ctx, added, stack) ==
  IF children = <<>> THEN [added |-> added, stack |-> stack]
  ELSE LET child == NodeOf(graph, Head(children))
           key == QualifiedName(child.name, ctx)
       IN IF key \notin added /\ schedulerReady(child, tensorMap, ctx)
            THEN pushChildren(Tail(children), tensorMap, ctx,
                              added \cup {key},
                              Append(stack, [node |-> child.name,
                                             contexts |-> ctx]))
          ELSE pushChildren(Tail(children), tensorMap, ctx, added, stack)

\* a mutant of storeName: the result is stored under the bare node name
storeNameBare(name, ctx) == QualifiedName(name, RootContext)

\* the name tensorMap[nodeName] = await tensors stores under
storeName(name, ctx) == QualifiedName(name, ctx)

\* a mutant of startAsync: only the first graph input is put on the stack
startAsyncFirstSeed(inputKeys, inputs, out) ==
  LET base == StartedCall("executeAsync", "none", inputKeys, inputs, out)
      seeds == GraphInputs(graph)
  IN [base EXCEPT
        !.pc = "async",
        !.stack = [i \in 1..(IF seeds = <<>> THEN 0 ELSE 1) |->
                     [node |-> seeds[i], contexts |-> RootContext]],
        !.tensorMap = SeedTensorMap(inputKeys, inputs),
        !.keyOrder = SeedKeyOrder(inputKeys)]

\* executeWithControlFlow before its loop: the stack of the graph inputs,
\* the environment and the scheduled-set, all local to the call
startAsync(inputKeys, inputs, out) ==
  LET base == StartedCall("executeAsync", "none", inputKeys, inputs, out)
      seeds == GraphInputs(graph)
  IN [base EXCEPT
        !.pc = "async",
        !.stack = [i \in 1..Len(seeds) |->
                     [node |-> seeds[i], contexts |-> RootContext]],
        !.tensorMap = SeedTensorMap(inputKeys, inputs),
        !.keyOrder = SeedKeyOrder(inputKeys)]

ExecuteAsyncStart(c) ==
  /\ CanStart(c)
  /\ \E inputKeys \in InputKeyChoices(graph), out \in OutputChoices(graph) :
     \E vals \in [Range(inputKeys) -> {0, 1}] :
       /\ \A k \in Range(inputKeys) : vals[k] \in InputValues(k)
       /\ calls' = [calls EXCEPT ![c] =
            startAsync(inputKeys, InputTensors(inputKeys, vals), out)]
       /\ nextId' = nextId + Len(inputKeys)
  /\ UNCHANGED <<graph, caller, phase, compiledOrder, weightMap, weightIds, disposals,
                 accel>>

\* a mutant of schedulerStep: the item taken from the stack is put back at
\* its bottom and nothing is dispatched
schedulerStepRequeues(call, id, throws) ==
  [made |-> 0,
   call |-> [call EXCEPT !.stack =
               <<call.stack[Len(call.stack)]>>
                 \o SubSeq(call.stack, 1, Len(call.stack) - 1)]]

\* one iteration of the loop of executeWithControlFlow on the call's own
\* stack, environment and scheduled-set: the call after it, and the number
\* of tensors the operator made
schedulerStep(call, id, throws) ==
  LET item == call.stack[Len(call.stack)]
      rest == SubSeq(call.stack, 1, Len(call.stack) - 1)
      node == NodeOf(graph, item.node)
      r == dispatchOp(node, call.tensorMap, item.contexts, id, throws)
      rec == DispatchRecord(node, item.contexts, r, call.tensorMap)
      key == storeName(node.name, r.ctx)
      tm == Put(call.tensorMap, key, r.out)
      pushed == pushChildren(Children(graph, node.name), tm, r.ctx,
                             call.added, rest)
  IN IF r.err
       THEN [made |-> 0,
             call |-> [call EXCEPT !.pc = "failed", !.stack = rest,
                                   !.ctx = r.ctx, !.log = Append(call.log, rec),
                                   !.error = [kind |-> "op", names |-> <<>>]]]
     ELSE [made |-> r.made,
           call |-> [call EXCEPT !.ctx = r.ctx,
                                 !.tensorMap = tm,
                                 !.keyOrder = IF key \in Range(call.keyOrder)
                                                THEN call.keyOrder
                                                ELSE Append(call.keyOrder, key),
                                 !.added = pushed.added,
                                 !.stack = pushed.stack,
                                 !.log = Append(call.log, rec)]]

ExecuteAsyncStep(c) ==
  /\ calls[c].pc = "async"
  /\ calls[c].stack # <<>>
  /\ \E throws \in BOOLEAN :
     LET s == schedulerStep(calls[c], nextId, throws)
     IN /\ calls' = [calls EXCEPT ![c] = s.call]
        /\ nextId' = nextId + s.made
  /\ UNCHANGED <<graph, caller, phase, compiledOrder, weightMap, weightIds, disposals,
                 accel>>

\* the ids of the tensors of an array of tensor arrays
InputIds(inputKeys, inputs) ==
  {inputs[inputKeys[i]][j].id :
     i \in 1..Len(inputKeys), j \in 1..1}

\* a mutant of cleanupDisposals: the pass walks the environment of every
\* call in flight instead of the call's own
cleanupDisposalsEveryCall(tensorMap, keyOrder, outputIds, inputIds, wIds) ==
  Flatten([d \in 1..Len(calls) |->
     Flatten([i \in 1..Len(calls[d].keyOrder) |->
        LET arr == calls[d].tensorMap[calls[d].keyOrder[i]]
            keep == SelectSeq(arr, LAMBDA t :
                      /\ t # Undef
                      /\ t.id \notin outputIds
                      /\ t.id \notin inputIds
                      /\ t.id \notin wIds)
        IN [j \in 1..Len(keep) |-> keep[j].id]])])

\* a mutant of cleanupDisposals: the weight ids are not looked at
cleanupDisposalsIgnoreWeights(tensorMap, keyOrder, outputIds, inputIds, wIds) ==
  Flatten([i \in 1..Len(keyOrder) |->
     LET arr == tensorMap[keyOrder[i]]
         keep == SelectSeq(arr, LAMBDA t :
                   /\ t # Undef
                   /\ t.id \notin outputIds
                   /\ t.id \notin inputIds)
     IN [j \in 1..Len(keep) |-> keep[j].id]])

\* a mutant of cleanupDisposals: only the entries of the root frame are released
cleanupDisposalsRootOnly(tensorMap, keyOrder, outputIds, inputIds, wIds) ==
  Flatten([i \in 1..Len(keyOrder) |->
     IF keyOrder[i][2] # RootContext THEN <<>>
     ELSE LET arr == tensorMap[keyOrder[i]]
              keep == SelectSeq(arr, LAMBDA t :
                        /\ t # Undef
                        /\ t.id \notin outputIds
                        /\ t.id \notin inputIds
                        /\ t.id \notin wIds)
          IN [j \in 1..Len(keep) |-> keep[j].id]])

\* the dispose() calls of the cleanup pass, in order
cleanupDisposals(tensorMap, keyOrder, outputIds, inputIds, wIds) ==
  Flatten([i \in 1..Len(keyOrder) |->
     LET arr == tensorMap[keyOrder[i]]
         keep == SelectSeq(arr, LAMBDA t :
                   /\ t # Undef
                   /\ t.id \notin outputIds
                   /\ t.id \notin inputIds
                   /\ t.id \notin wIds)
     IN [j \in 1..Len(keep) |-> keep[j].id]])

\* executeAsync after the scheduler: findOutputs and the cleanup pass; the
\* call after it and the dispose() calls it made
finishAsync(call) ==
  LET res == findOutputs(call.tensorMap, call.ctx, call.hasOutputs,
                         call.outputs)
  IN IF \E n \in DOMAIN res : res[n] = Undef
       \* results[key].id of an undefined result throws a TypeError
       THEN [disposed |-> <<>>,
             call |-> [call EXCEPT !.pc = "failed",
                                   !.error = [kind |-> "type", names |-> <<>>]]]
     ELSE [disposed |-> cleanupDisposals(call.tensorMap, call.keyOrder,
                                         {res[n].id : n \in DOMAIN res},
                                         InputIds(call.inputKeys, call.inputs),
                                         weightIds),
           call |-> [call EXCEPT !.pc = "done", !.result = res]]

ExecuteAsyncFinish(c) ==
  /\ calls[c].pc = "async"
  /\ calls[c].stack = <<>>
  /\ LET f == finishAsync(calls[c])
     IN /\ calls' = [calls EXCEPT ![c] = f.call]
        /\ disposals' = disposals \o f.disposed
  /\ UNCHANGED <<graph, caller, phase, compiledOrder, weightMap, weightIds, nextId,
                 accel>>

(***************************************************************************)
(* dispose(): every tensor of the weight map is disposed.  The caller      *)
(* makes no call on a disposed executor; calls in flight go on.            *)
(***************************************************************************)
Dispose ==
  /\ phase = "ready"
  /\ phase' = "disposed"
  /\ disposals' = disposals \o
       Flatten([i \in 1..Len(WeightKeys) |->
                  [j \in 1..Len(weightMap[WeightKeys[i]]) |->
                     weightMap[WeightKeys[i]][j].id]])
  /\ UNCHANGED <<graph, caller, compiledOrder, weightMap, weightIds, nextId,
                 calls, accel>>

(***************************************************************************)
(* The accelerated path: compileWebMLModel and executeWebMLModel.  The     *)
(* backend model records the addOperand calls (each with the index the     *)
(* executor holds for it), the setOperandValue indices, the operations     *)
(* and the identified inputs and outputs.                                  *)
(***************************************************************************)
\* operandInfos[name] of a name without an entry
NoInfo == -1

\* operandInfos[inputName]: the key is the input name as written
InfoOf(st, inputNames, i) ==
  IF /\ i <= Len(inputNames)
     /\ inputNames[i][2] = 0
     /\ inputNames[i][1] \in DOMAIN st.operandInfos
    THEN st.operandInfos[inputNames[i][1]] ELSE NoInfo

Throw(st, kind) == [st EXCEPT !.err = kind]

\* index = this.operandIndex++; this.model.addOperand(...)
addOperand(st) ==
  [st EXCEPT !.operandIndex = @ + 1,
             !.model = [@ EXCEPT !.operands = Append(@, st.operandIndex)]]

setOperandValue(st, index) ==
  [st EXCEPT !.model = [@ EXCEPT !.values = @ \cup {index}]]

\* addScalarInt32 / addScalarFloat32
addScalar(st) == setOperandValue(addOperand(st), st.operandIndex)

RECURSIVE addScalars(_, _)
addScalars(st, k) == IF k = 0 THEN st ELSE addScalars(addScalar(st), k - 1)

\* this.operandInfos[name] = {index: this.operandIndex++, ...}; addOperand
addNamedOperand(st, name) ==
  addOperand([st EXCEPT !.operandInfos = Put(@, name, st.operandIndex)])

addOperation(st, type, inputs, outputs) ==
  [st EXCEPT !.model = [@ EXCEPT !.operations =
     Append(@, [type |-> type, inputs |-> inputs, outputs |-> outputs])]]

markVisited(st, names) == [st EXCEPT !.visited = @ \cup names]

compileConv(node, st) ==
  LET ch == Children(graph, node.name)
  IN IF ch = <<>> THEN Throw(st, "type")
     ELSE
       LET c1 == NodeOf(graph, ch[1])
           hasBias == c1.op = "add"
           ch2 == Children(graph, c1.name)
       IN IF hasBias /\ ch2 = <<>> THEN Throw(st, "type")
          ELSE
            LET hasRelu == hasBias /\ NodeOf(graph, ch2[1]).op = "clipByValue"
                st1 == markVisited(st, {node.name}
                          \cup (IF hasBias THEN {c1.name} ELSE {})
                          \cup (IF hasRelu THEN {ch2[1]} ELSE {}))
                input == InfoOf(st, node.inputNames, 1)
                filter == InfoOf(st, node.inputNames, 2)
                bias == IF hasBias THEN InfoOf(st, c1.inputNames, 2) ELSE NoInfo
                depthwise == node.op # "conv2d"
                nScalars == IF depthwise THEN 4 ELSE 3
                st2 == addScalars(st1, nScalars)
                st3 == addScalar(st2)
                outputName == IF hasRelu THEN ch2[1] ELSE c1.name
                st4 == addNamedOperand(st3, outputName)
            \* node.dilations is compared with [1, 1, 1, 1] and nothing
            \* is done with the answer
            IN IF input = NoInfo \/ filter = NoInfo \/ bias = NoInfo
                 THEN Throw(st1, "type")
               ELSE IF node.pad \notin {"same", "valid"}
                 THEN Throw(st1, "padding")
               ELSE IF node.dataFormat # "NHWC"
                 THEN Throw(st2, "dataFormat")
               ELSE addOperation(st4,
                      IF depthwise THEN "DEPTHWISE_CONV_2D" ELSE "CONV_2D",
                      <<input, filter, bias>>
                        \o [i \in 1..(nScalars + 1) |-> st1.operandIndex + i - 1],
                      <<st3.operandIndex>>)

compilePool(node, st) ==
  LET ch == Children(graph, node.name)
  IN IF ch = <<>> THEN Throw(st, "type")
     ELSE
       LET hasRelu == NodeOf(graph, ch[1]).op = "clipByValue"
           st1 == markVisited(st, {node.name}
                     \cup (IF hasRelu THEN {ch[1]} ELSE {}))
           input == InfoOf(st, node.inputNames, 1)
           st2 == addScalars(st1, 6)
           outputName == IF hasRelu THEN ch[1] ELSE node.name
           st3 == addNamedOperand(st2, outputName)
       IN IF input = NoInfo THEN Throw(st1, "type")
          ELSE IF node.pad \notin {"same", "valid"} THEN Throw(st1, "padding")
          ELSE addOperation(st3, "AVERAGE_POOL_2D",
                 <<input>> \o [i \in 1..6 |-> st1.operandIndex + i - 1],
                 <<st2.operandIndex>>)

compileUnary(node, st, type) ==
  LET input == InfoOf(st, node.inputNames, 1)
      st1 == addScalar(st)
      st2 == addNamedOperand(st1, node.name)
  IN IF input = NoInfo THEN Throw(st, "type")
     ELSE markVisited(addOperation(st2, type, <<input, st.operandIndex>>,
                                   <<st1.operandIndex>>), {node.name})

\* one step of the reduce over compiledOrder
compileNode(node, st, map) ==
  IF node.name \in st.visited THEN st
  ELSE CASE node.op \in {"placeholder", "const"} ->
              IF <<node.name, RootContext>> \notin DOMAIN map
                THEN Throw(st, "type")
              ELSE LET st1 == markVisited(addNamedOperand(st, node.name),
                                          {node.name})
                   IN IF node.op = "const"
                        THEN setOperandValue(st1, st.operandIndex) ELSE st1
         [] node.op \in {"conv2d", "depthwiseConv2d"} -> compileConv(node, st)
         [] node.op = "avgPool" -> compilePool(node, st)
         [] node.op = "squeeze" -> compileUnary(node, st, "RESHAPE")
         [] node.op = "softmax" -> compileUnary(node, st, "SOFTMAX")
         [] OTHER -> st

RECURSIVE compileNodes(_, _, _)
compileNodes(order, st, map) ==
  IF order = <<>> \/ st.err # "none" THEN st
  ELSE compileNodes(Tail(order), compileNode(NodeOf(graph, Head(order)), st, map),
                    map)

\* the reduce, then identifyInputsAndOutputs
buildWebMLModel(st0, map) ==
  LET st == compileNodes(compiledOrder, st0, map)
      ps == Placeholders(graph)
      input == IF ps = <<>> THEN NoInfo ELSE InfoOf(st, <<<<ps[1], 0>>>>, 1)
      output == IF graph.outputs = <<>> THEN NoInfo
                ELSE InfoOf(st, <<<<graph.outputs[1], 0>>>>, 1)
  IN IF st.err # "none" THEN st
     ELSE IF input = NoInfo \/ output = NoInfo THEN Throw(st, "type")
     ELSE [st EXCEPT !.model = [@ EXCEPT !.io = <<input, output>>]]

\* a mutant of mustCompile: every call compiles
mustCompileAlways(compiled) == TRUE

\* compileWebMLModel goes on unless this.compiledWebMLModel === true
mustCompile(compiled) == ~compiled

ExecuteWebML(c) ==
  /\ CanStart(c)
  /\ \E inputKeys \in InputKeyChoices(graph), out \in OutputChoices(graph) :
     \E vals \in [Range(inputKeys) -> {0, 1}] :
       /\ \A k \in Range(inputKeys) : vals[k] \in InputValues(k)
       /\ LET inputs == InputTensors(inputKeys, vals)
              base == StartedCall("execute", "webml", inputKeys, inputs, out)
              chk == checkInput(Placeholders(graph), inputKeys)
          IN /\ nextId' = nextId + Len(inputKeys)
             /\ IF chk # NoError
                  THEN /\ calls' = [calls EXCEPT ![c] =
                             [base EXCEPT !.pc = "failed", !.error = chk]]
                       /\ UNCHANGED backendLog
                ELSE IF ~mustCompile(compiledWebMLModel)
                  THEN /\ calls' = [calls EXCEPT ![c] =
                             [base EXCEPT !.pc = "executeWebML"]]
                       /\ UNCHANGED backendLog
                ELSE /\ calls' = [calls EXCEPT ![c] =
                           [base EXCEPT !.pc = "createModel", !.pending = c]]
                     /\ backendLog' = Called(backendLog, {"createModel"})
  /\ UNCHANGED <<graph, caller, phase, compiledOrder, weightMap, weightIds, disposals,
                 compiledWebMLModel, model, operandInfos, operandIndex,
                 compilation, execution>>

\* this.model = (created model); the reduce; identifyInputsAndOutputs;
\* model.finish()
CompileBuild(c) ==
  /\ calls[c].pc = "createModel"
  /\ LET st0 == [operandInfos |-> operandInfos, operandIndex |-> operandIndex,
                 model |-> NewModel(calls[c].pending), visited |-> {},
                 err |-> "none"]
         st == buildWebMLModel(st0, SeedTensorMap(calls[c].inputKeys,
                                                  calls[c].inputs))
     IN /\ model' = st.model
        /\ operandInfos' = st.operandInfos
        /\ operandIndex' = st.operandIndex
        /\ IF st.err # "none"
             THEN /\ calls' = [calls EXCEPT ![c] =
                        [@ EXCEPT !.pc = "failed",
                                  !.error = [kind |-> st.err, names |-> <<>>]]]
                  /\ UNCHANGED backendLog
           ELSE /\ calls' = [calls EXCEPT ![c] = [@ EXCEPT !.pc = "finish"]]
                /\ backendLog' = Called(backendLog, {"finish"})
  /\ UNCHANGED <<graph, caller, phase, compiledOrder, weightMap, weightIds, nextId,
                 disposals, compiledWebMLModel, compilation, execution>>

\* after model.finish(), which finished the model this call built:
\* this.model.createCompilation(), on the model the field holds now
CompileCreateCompilation(c) ==
  /\ calls[c].pc = "finish"
  /\ model' = IF model.id = calls[c].pending
                THEN [model EXCEPT !.finished = TRUE] ELSE model
  /\ calls' = [calls EXCEPT ![c] = [@ EXCEPT !.pc = "createCompilation",
                                             !.pending = model.id]]
  /\ backendLog' = Called(backendLog, {"createCompilation"})
  /\ UNCHANGED <<graph, caller, phase, compiledOrder, weightMap, weightIds, nextId,
                 disposals, compiledWebMLModel, operandInfos, operandIndex,
                 compilation, execution>>

\* this.compilation = ...; setPreference; compilation.finish()
CompileFinishCompilation(c) ==
  /\ calls[c].pc = "createCompilation"
  /\ compilation' = calls[c].pending
  /\ calls' = [calls EXCEPT ![c] = [@ EXCEPT !.pc = "compilationFinish"]]
  /\ backendLog' = Called(backendLog, {"setPreference", "compilationFinish"})
  /\ UNCHANGED <<graph, caller, phase, compiledOrder, weightMap, weightIds, nextId,
                 disposals, compiledWebMLModel, model, operandInfos,
                 operandIndex, execution>>

\* after compilation.finish(): this.compilation.createExecution()
CompileCreateExecution(c) ==
  /\ calls[c].pc = "compilationFinish"
  /\ calls' = [calls EXCEPT ![c] = [@ EXCEPT !.pc = "createExecution",
                                             !.pending = compilation]]
  /\ backendLog' = Called(backendLog, {"createExecution"})
  /\ UNCHANGED <<graph, caller, phase, compiledOrder, weightMap, weightIds, nextId,
                 disposals, compiledWebMLModel, model, operandInfos,
                 operandIndex, compilation, execution>>

\* this.execution = ...; this.compiledWebMLModel = true
CompileDone(c) ==
  /\ calls[c].pc = "createExecution"
  /\ execution' = calls[c].pending
  /\ compiledWebMLModel' = TRUE
  /\ calls' = [calls EXCEPT ![c] = [@ EXCEPT !.pc = "executeWebML"]]
  /\ UNCHANGED <<graph, caller, phase, compiledOrder, weightMap, weightIds, nextId,
                 disposals, model, operandInfos, operandIndex, compilation,
                 backendLog>>

\* executeWebMLModel up to its await: setInput, the output tensor,
\* setOutput, startCompute
ExecuteWebMLModel(c) ==
  /\ calls[c].pc = "executeWebML"
  /\ LET ps == Placeholders(graph)
         st == [operandInfos |-> operandInfos]
         output == IF graph.outputs = <<>> THEN NoInfo
                   ELSE InfoOf(st, <<<<graph.outputs[1], 0>>>>, 1)
     IN IF ps = <<>> \/ execution = 0 \/ output = NoInfo
          THEN /\ calls' = [calls EXCEPT ![c] =
                     [@ EXCEPT !.pc = "failed",
                               !.error = [kind |-> "type", names |-> <<>>]]]
               /\ UNCHANGED <<nextId, backendLog>>
        ELSE /\ calls' = [calls EXCEPT ![c] =
                   [@ EXCEPT !.pc = "startCompute",
                             !.result = [n \in {graph.outputs[1]} |->
                                           Tensor(nextId, 0)]]]
             /\ nextId' = nextId + 1
             /\ backendLog' = Called(backendLog,
                                     {"setInput", "setOutput", "startCompute"})
  /\ UNCHANGED <<graph, caller, phase, compiledOrder, weightMap, weightIds, disposals,
                 compiledWebMLModel, model, operandInfos, operandIndex,
                 compilation, execution>>

\* after startCompute: its error is thrown, or the output tensor returned
ExecuteWebMLDone(c) ==
  /\ calls[c].pc = "startCompute"
  /\ \E error \in BOOLEAN :
       calls' = [calls EXCEPT ![c] =
         IF error
           THEN [@ EXCEPT !.pc = "failed", !.result = <<>>,
                          !.error = [kind |-> "backend", names |-> <<>>]]
         ELSE [@ EXCEPT !.pc = "done"]]
  /\ UNCHANGED <<graph, caller, phase, compiledOrder, weightMap, weightIds, nextId,
                 disposals, compiledWebMLModel, model, operandInfos,
                 operandIndex, compilation, execution, backendLog>>

(***************************************************************************)
(* The executor on the fixed graphs.                                       *)
(***************************************************************************)
Init ==
  /\ graph \in MainGraphs
  /\ caller = Caller(MaxCalls, TRUE, FALSE)
  /\ InitExecutor

Next ==
  \/ Construct
  \/ SetWeightMap
  \/ Dispose
  \/ \E c \in CallIds : ExecuteWebGL(c)
  \/ \E c \in CallIds : ExecuteAsyncStart(c)
  \/ \E c \in CallIds : ExecuteAsyncStep(c)
  \/ \E c \in CallIds : ExecuteAsyncFinish(c)
  \/ \E c \in CallIds : ExecuteWebML(c)
  \/ \E c \in CallIds : CompileBuild(c)
  \/ \E c \in CallIds : CompileCreateCompilation(c)
  \/ \E c \in CallIds : CompileFinishCompilation(c)
  \/ \E c \in CallIds : CompileCreateExecution(c)
  \/ \E c \in CallIds : CompileDone(c)
  \/ \E c \in CallIds : ExecuteWebMLModel(c)
  \/ \E c \in CallIds : ExecuteWebMLDone(c)

Spec == Init /\ [][Next]_vars

(***************************************************************************)
(* The accelerated path alone, on the graphs of its vocabulary: a caller   *)
(* that awaits each call, and a caller that issues its calls without       *)
(* awaiting.                                                               *)
(***************************************************************************)
InitAccel ==
  /\ graph \in AccelGraphs
  /\ caller = Caller(MaxCalls + 1, TRUE, FALSE)
  /\ InitExecutor

NextAccel ==
  \/ Construct
  \/ SetWeightMap
  \/ \E c \in CallIds : ExecuteWebML(c)
  \/ \E c \in CallIds : CompileBuild(c)
  \/ \E c \in CallIds : CompileCreateCompilation(c)
  \/ \E c \in CallIds : CompileFinishCompilation(c)
  \/ \E c \in CallIds : CompileCreateExecution(c)
  \/ \E c \in CallIds : CompileDone(c)
  \/ \E c \in CallIds : ExecuteWebMLModel(c)
  \/ \E c \in CallIds : ExecuteWebMLDone(c)

SpecAccel == InitAccel /\ [][NextAccel]_vars

InitOverlap ==
  /\ graph \in OverlapGraphs
  /\ caller = Caller(MaxCalls + 1, FALSE, TRUE)
  /\ InitExecutor

SpecAccelOverlap == InitOverlap /\ [][NextAccel]_vars

(***************************************************************************)
(* executeAsync alone, on a graph with intermediates and a graph with a    *)
(* conditional: a caller that issues its calls without awaiting, so that   *)
(* the calls interleave at the await of every scheduler iteration.         *)
(***************************************************************************)
\* placeholder x, a = neg(x), y = neg(a): a is an intermediate
ChainGraph ==
  [kind |-> "chain",
   withControlFlow |-> FALSE,
   nodes |-> <<Node("x", "placeholder", <<>>),
               Node("a", "neg", <<<<"x", 0>>>>),
               Node("y", "neg", <<<<"a", 0>>>>)>>,
   weights |-> <<>>,
   outputs |-> <<"y">>]

AsyncGraphs == {ChainGraph, CondGraph}

InitAsyncOverlap ==
  /\ graph \in AsyncGraphs
  /\ caller = Caller(MaxCalls + 1, FALSE, TRUE)
  /\ InitExecutor

NextAsync ==
  \/ Construct
  \/ SetWeightMap
  \/ \E c \in CallIds : ExecuteAsyncStart(c)
  \/ \E c \in CallIds : ExecuteAsyncStep(c)
  \/ \E c \in CallIds : ExecuteAsyncFinish(c)

SpecAsyncOverlap == InitAsyncOverlap /\ [][NextAsync]_vars

(***************************************************************************)
(* executeAsync on the generated graphs and the small static graphs, none  *)
(* with control flow, by a caller that passes the declared placeholders.   *)
(***************************************************************************)
InitStaticAsync ==
  /\ \/ \E k \in 1..MaxNodes :
          \E f \in [1..k -> AllInputChoices(k)] :
            /\ IsGenInputs(k, f)
            /\ graph = GenGraph(k, f)
     \/ graph \in {LinearGraph, SquareGraph, SoftmaxGraph}
  /\ caller = Caller(MaxCalls, TRUE, TRUE)
  /\ InitExecutor

SpecStaticAsync == InitStaticAsync /\ [][NextAsync]_vars

(***************************************************************************)
(* executeAsync on the fixed graphs, with the scheduling of the event      *)
(* loop: a call suspended at an await is resumed once the awaited value    *)
(* is there, so a scheduler iteration or a finish that stays possible is   *)
(* not put off for ever.  When the caller starts a call is up to the       *)
(* caller.  The weak fairness of the iteration is written out, with the    *)
(* condition under which an iteration is possible in the place of ENABLED. *)
(***************************************************************************)
\* while (stack.length > 0): an iteration can be taken, and it adds a
\* dispatch to the call's history
StepEnabled(c) == calls[c].pc = "async" /\ calls[c].stack # <<>>

SpecAsyncLive ==
  /\ Init
  /\ [][NextAsync]_vars
  /\ \A c \in CallIds :
       []<>(~StepEnabled(c)) \/ []<><<ExecuteAsyncStep(c)>>_vars
  /\ \A c \in CallIds : WF_vars(ExecuteAsyncFinish(c))

(***************************************************************************)
(* C1: for a control-flow-free graph, every node of compiledOrder has      *)
(* every node named in its inputNames at an earlier position.              *)
(***************************************************************************)
CompiledOrderIsTopological ==
  (phase # "new" /\ ~graph.withControlFlow) =>
    \A i \in 1..Len(compiledOrder) :
      \A k \in 1..Len(NodeOf(graph, compiledOrder[i]).inputNames) :
        \E j \in 1..(i - 1) :
          compiledOrder[j] =
            InputNode(NodeOf(graph, compiledOrder[i]).inputNames[k])

\* a compiled join: a node with two different producers, emitted after both
CompiledJoinWitness ==
  /\ phase # "new"
  /\ \E i \in 1..Len(compiledOrder) :
       LET ins == NodeOf(graph, compiledOrder[i]).inputNames
       IN /\ Len(ins) = 2
          /\ InputNode(ins[1]) # InputNode(ins[2])
          /\ Len(NodeOf(graph, InputNode(ins[2])).inputNames) > 0

(***************************************************************************)
(* C2 (as claimed): compiledOrder holds every node reachable from          *)
(* graph.inputs, each exactly once.                                        *)
(***************************************************************************)
Occurrences(s, x) == Cardinality({i \in 1..Len(s) : s[i] = x})

CompiledOrderHasEachNodeOnce ==
  (phase # "new" /\ ~graph.withControlFlow) =>
    \A n \in NodeNames(graph) : Occurrences(compiledOrder, n) = 1

(***************************************************************************)
(* Readings of a call used by the properties below.                        *)
(***************************************************************************)
Started(c) == calls[c].pc # "idle"

MissingNames(c) ==
  SelectSeq(Placeholders(graph), LAMBDA n : n \notin Range(calls[c].inputKeys))

ExtraNames(c) ==
  SelectSeq(calls[c].inputKeys, LAMBDA n : n \notin Range(Placeholders(graph)))

DispatchedNodes(c) == [i \in 1..Len(calls[c].log) |-> calls[c].log[i].node]

Dispatches(c, name) ==
  {i \in 1..Len(calls[c].log) : calls[c].log[i].node = name}

(***************************************************************************)
(* C3 (as claimed): on the webgl backend a finished execute has run the    *)
(* dynamic scheduler when the graph has control flow (every seed node of   *)
(* graph.inputs was dispatched) and the cached static order otherwise.     *)
(***************************************************************************)
ExecuteRunsSchedulerOnControlFlow ==
  \A c \in CallIds :
    (calls[c].pc = "done" /\ calls[c].entry = "execute"
       /\ calls[c].backend = "webgl") =>
      IF graph.withControlFlow
        THEN Range(GraphInputs(graph)) \subseteq Range(DispatchedNodes(c))
        ELSE DispatchedNodes(c) = compiledOrder

(***************************************************************************)
(* C4: an execute call that lacks a declared placeholder fails with the    *)
(* missing-input error, which lists exactly the absent placeholders; the   *)
(* call dispatches no operator, and the step that starts it makes no       *)
(* backend call and creates no tensor besides the caller's inputs.         *)
(***************************************************************************)
MissingInputReported(c) ==
  (Started(c) /\ calls[c].entry = "execute" /\ MissingNames(c) # <<>>) =>
    /\ calls[c].pc = "failed"
    /\ calls[c].error = [kind |-> "missing", names |-> MissingNames(c)]
    /\ calls[c].log = <<>>
    /\ calls[c].result = <<>>

MissingInputFailsFirst ==
  /\ [](\A c \in CallIds : MissingInputReported(c))
  /\ [][\A c \in CallIds :
          (~Started(c) /\ calls'[c].entry = "execute"
             /\ calls'[c].error.kind = "missing") =>
            /\ backendLog' = backendLog
            /\ <<model, operandInfos, operandIndex>>' =
                 <<model, operandInfos, operandIndex>>
            /\ disposals' = disposals]_vars

\* an execute call on the accelerated backend failed for two absent names
MissingInputWitness ==
  \E c \in CallIds :
    /\ calls[c].pc = "failed"
    /\ calls[c].backend = "webml"
    /\ calls[c].error.kind = "missing"
    /\ Len(calls[c].error.names) = 2
    /\ ExtraNames(c) # <<>>

(***************************************************************************)
(* C5 (as claimed): an execute call given a name that is no declared       *)
(* placeholder fails with the extra-input error, which lists exactly the   *)
(* supplied names that are not declared.                                   *)
(***************************************************************************)
ExtraInputAlwaysReported ==
  \A c \in CallIds :
    (Started(c) /\ calls[c].entry = "execute" /\ ExtraNames(c) # <<>>) =>
      /\ calls[c].pc = "failed"
      /\ calls[c].error = [kind |-> "extra", names |-> ExtraNames(c)]

(***************************************************************************)
(* C5 (amended): an execute call given a name that is no declared          *)
(* placeholder, and given every declared placeholder, fails with the       *)
(* extra-input error, which lists exactly the supplied names that are not  *)
(* declared; no operator is dispatched.                                    *)
(***************************************************************************)
ExtraInputReportedWhenNoneMissing ==
  \A c \in CallIds :
    (Started(c) /\ calls[c].entry = "execute" /\ ExtraNames(c) # <<>>
       /\ MissingNames(c) = <<>>) =>
      /\ calls[c].pc = "failed"
      /\ calls[c].error = [kind |-> "extra", names |-> ExtraNames(c)]
      /\ calls[c].log = <<>>

ExtraInputWitness ==
  \E c \in CallIds :
    /\ calls[c].pc = "failed"
    /\ calls[c].entry = "execute"
    /\ calls[c].error = [kind |-> "extra", names |-> <<ExtraName>>]
    /\ Len(calls[c].inputKeys) = 3

(***************************************************************************)
(* C6 (as claimed): on execute and on executeAsync alike, a call whose     *)
(* input names differ from the declared placeholders dispatches no         *)
(* operator and ends with the input-contract error.                        *)
(***************************************************************************)
InputContractOnEveryEntry ==
  \A c \in CallIds :
    (Started(c) /\ (MissingNames(c) # <<>> \/ ExtraNames(c) # <<>>)) =>
      /\ calls[c].log = <<>>
      /\ calls[c].pc \in {"done", "failed"} =>
           calls[c].error.kind \in {"missing", "extra"}

(***************************************************************************)
(* C7: in the dynamic scheduler a merge node is scheduled once one of its  *)
(* inputs resolves in the frame context a producer left, it is then        *)
(* dispatched, and in the conditional and the loop it is                   *)
(* dispatched while its other input is unresolved.                         *)
(***************************************************************************)
MergeChildren(name) ==
  {m \in Range(Children(graph, name)) : NodeOf(graph, m).op = "merge"}

MergeRunsOnFirstInput ==
  \A c \in CallIds :
    calls[c].entry = "executeAsync" =>
      /\ \A i \in 1..Len(calls[c].log) :
           \A m \in MergeChildren(calls[c].log[i].node) :
             (\E j \in 1..Len(NodeOf(graph, m).inputNames) :
                getTensor(NodeOf(graph, m).inputNames[j], calls[c].tensorMap,
                          calls[c].log[i].ctxAfter) # Undef)
               => QualifiedName(m, calls[c].log[i].ctxAfter) \in calls[c].added
      /\ \A i \in 1..Len(calls[c].log) :
           (calls[c].log[i].op = "merge" /\ graph.kind \in {"cond", "loop"}) =>
             Cardinality({j \in 1..Len(calls[c].log[i].resolved) :
                            calls[c].log[i].resolved[j]}) = 1
      /\ calls[c].pc \in {"done", "failed"} /\ calls[c].error.kind # "op" =>
           \A k \in calls[c].added :
             \E i \in 1..Len(calls[c].log) :
               /\ calls[c].log[i].node = k[1]
               /\ calls[c].log[i].ctx = k[2]

\* the conditional's merge ran on its second input, the first unresolved
MergeWitness ==
  \E c \in CallIds :
    /\ graph.kind = "cond"
    /\ calls[c].pc = "done"
    /\ \E i \in 1..Len(calls[c].log) :
         /\ calls[c].log[i].op = "merge"
         /\ calls[c].log[i].resolved = <<FALSE, TRUE>>

(***************************************************************************)
(* C8: whenever the dynamic scheduler dispatches a node that is no merge,  *)
(* every declared input of the node resolves to a tensor in the call's     *)
(* environment under the frame context restored for the dispatch.          *)
(***************************************************************************)
InputsResolvedAtDispatch ==
  \A c \in CallIds :
    calls[c].entry = "executeAsync" =>
      \A i \in 1..Len(calls[c].log) :
        calls[c].log[i].op # "merge" =>
          \A j \in 1..Len(calls[c].log[i].resolved) :
            calls[c].log[i].resolved[j]

\* a two-input node of the loop body was dispatched inside an iteration frame
DispatchInFrameWitness ==
  \E c \in CallIds :
    /\ calls[c].entry = "executeAsync"
    /\ \E i \in 1..Len(calls[c].log) :
         /\ calls[c].log[i].node = "body"
         /\ calls[c].log[i].ctx = <<<<"L", 1>>>>
         /\ calls[c].log[i].resolved = <<TRUE, TRUE>>

(***************************************************************************)
(* C9: in the loop graph the body is dispatched once per true answer of    *)
(* the loop condition, and every name that resolves under the current      *)
(* frame context resolves to what a dispatch that ended in this frame      *)
(* context or an enclosing one stored (or to a weight or an input): a      *)
(* tensor of iteration i reaches iteration i+1 only through the            *)
(* nextIteration node.                                                     *)
(***************************************************************************)
TrueAnswers(c) ==
  {i \in Dispatches(c, "cond") : calls[c].log[i].out[1].val # 0}

SeedKeys(c) ==
  DOMAIN weightMap
    \cup {QualifiedName(calls[c].inputKeys[i], RootContext) :
            i \in 1..Len(calls[c].inputKeys)}

ResolvesLocally(c, name, idx) ==
  LET t == getTensor(<<name, idx>>, calls[c].tensorMap, calls[c].ctx)
  IN t # Undef =>
       \/ QualifiedName(name, RootContext) \in SeedKeys(c)
       \/ \E i \in Dispatches(c, name) :
            /\ calls[c].log[i].ctxAfter \in Range(ContextIds(calls[c].ctx))
            /\ idx + 1 <= Len(calls[c].log[i].out)
            /\ calls[c].log[i].out[idx + 1] = t

LoopBodyRunsPerCondition ==
  \A c \in CallIds :
    (calls[c].entry = "executeAsync" /\ graph.kind = "loop") =>
      /\ \A n \in NodeNames(graph), idx \in {0, 1} : ResolvesLocally(c, n, idx)
      /\ Cardinality(Dispatches(c, "body")) <= Cardinality(TrueAnswers(c))
      /\ calls[c].pc \in {"done", "failed"} =>
           Cardinality(Dispatches(c, "body")) = Cardinality(TrueAnswers(c))
      /\ (calls[c].pc = "done" /\ MissingNames(c) = <<>>) =>
           Cardinality(Dispatches(c, "body")) = graph.weights[2][2]

\* the loop ran its body twice and returned
LoopWitness ==
  \E c \in CallIds :
    /\ graph.kind = "loop"
    /\ calls[c].pc = "done"
    /\ Cardinality(Dispatches(c, "body")) = 2
    /\ Cardinality(Dispatches(c, "cond")) = 3

(***************************************************************************)
(* C10: after executeAsync has returned, every tensor of the call's        *)
(* environment whose id is not that of a returned output, of a supplied    *)
(* input or of a weight has been disposed, whatever frame it is stored     *)
(* under.                                                                  *)
(***************************************************************************)
EnvironmentTensors(c) ==
  UNION {Range(calls[c].tensorMap[k]) : k \in DOMAIN calls[c].tensorMap}
    \ {Undef}

IntermediatesDisposedAfterExecuteAsync ==
  \A c \in CallIds :
    (calls[c].entry = "executeAsync" /\ calls[c].pc = "done") =>
      \A t \in EnvironmentTensors(c) :
        (/\ \A n \in DOMAIN calls[c].result : calls[c].result[n].id # t.id
         /\ t.id \notin InputIds(calls[c].inputKeys, calls[c].inputs)
         /\ t.id \notin weightIds)
          => t.id \in Range(disposals)

\* a returned executeAsync call that disposed a tensor of an iteration frame
CleanupWitness ==
  \E c \in CallIds :
    /\ calls[c].entry = "executeAsync"
    /\ calls[c].pc = "done"
    /\ \E k \in DOMAIN calls[c].tensorMap :
         /\ k[2] # RootContext
         /\ \E t \in Range(calls[c].tensorMap[k]) :
              t # Undef /\ t.id \in Range(disposals)

(***************************************************************************)
(* C11: no execute or executeAsync call disposes a tensor the caller       *)
(* supplied as an input, a weight tensor, or a tensor a call returned as a *)
(* requested output, also when the returned tensor is itself an input or   *)
(* a weight; a weight tensor is disposed by dispose() only.                *)
(***************************************************************************)
ResultIds(c) == {calls[c].result[n].id : n \in DOMAIN calls[c].result} \ {0}

BorrowedTensorsNeverDisposed ==
  /\ phase # "disposed" => weightIds \cap Range(disposals) = {}
  /\ \A c \in CallIds :
       /\ InputIds(calls[c].inputKeys, calls[c].inputs) \cap Range(disposals) = {}
       /\ (ResultIds(c) \ weightIds) \cap Range(disposals) = {}
       /\ phase # "disposed" => ResultIds(c) \cap Range(disposals) = {}

\* executeAsync has returned a weight as the requested output and has
\* disposed an intermediate tensor
BorrowedOutputWitness ==
  \E c \in CallIds :
    /\ calls[c].entry = "executeAsync"
    /\ calls[c].pc = "done"
    /\ ResultIds(c) # {}
    /\ ResultIds(c) \subseteq weightIds
    /\ disposals # <<>>
    /\ phase = "ready"

(***************************************************************************)
(* C12: when the operator of a dispatch throws, that dispatch is the last  *)
(* one of its call, and the call has failed with the operator's error and  *)
(* without an output map.                                                  *)
(***************************************************************************)
OperatorThrowAbortsCall ==
  \A c \in CallIds :
    \A i \in 1..Len(calls[c].log) :
      calls[c].log[i].threw =>
        /\ i = Len(calls[c].log)
        /\ calls[c].pc = "failed"
        /\ calls[c].error = [kind |-> "op", names |-> <<>>]
        /\ calls[c].result = <<>>

\* an operator of the conditional threw while a node was still on the stack
OperatorThrowWitness ==
  \E c \in CallIds :
    /\ calls[c].entry = "executeAsync"
    /\ calls[c].pc = "failed"
    /\ Len(calls[c].log) > 0
    /\ calls[c].log[Len(calls[c].log)].threw
    /\ graph.kind = "cond"
    /\ calls[c].stack # <<>>

(***************************************************************************)
(* Readings of the accelerated path.                                       *)
(***************************************************************************)
CompileMethods ==
  {"createModel", "finish", "createCompilation", "setPreference",
   "compilationFinish", "createExecution"}

\* the call has settled with an error thrown by compileWebMLModel
FailedInCompile(c) ==
  /\ calls[c].pc = "failed"
  /\ calls[c].pending # 0
  /\ calls[c].error.kind \in {"type", "padding", "dataFormat"}

(***************************************************************************)
(* C13 (as claimed): over sequential accelerated execute calls the backend *)
(* model is created, finished, compiled and given an execution instance    *)
(* once, whatever the calls.                                               *)
(***************************************************************************)
BackendModelCreatedOnce ==
  /\ backendLog["createModel"] <= 1
  /\ backendLog["finish"] <= 1
  /\ backendLog["createCompilation"] <= 1
  /\ backendLog["createExecution"] <= 1

(***************************************************************************)
(* C13 (amended): over sequential accelerated execute calls, once a        *)
(* compilation has completed the model has been finished, compiled and     *)
(* given an execution instance exactly once, and from then on no call      *)
(* changes the model, the operand table, the compilation or the execution  *)
(* instance or calls a compile method; the model was created once unless   *)
(* an earlier call's compilation threw.                                    *)
(***************************************************************************)
CompiledOnceAfterSuccess ==
  /\ [](compiledWebMLModel =>
          /\ backendLog["finish"] = 1
          /\ backendLog["createCompilation"] = 1
          /\ backendLog["createExecution"] = 1
          /\ model.finished
          /\ model.id # 0
          /\ compilation = model.id
          /\ execution = compilation)
  /\ []((\A c \in CallIds : ~FailedInCompile(c)) =>
          backendLog["createModel"] <= 1)
  /\ [][compiledWebMLModel =>
          /\ UNCHANGED <<compiledWebMLModel, model, operandInfos, operandIndex,
                         compilation, execution>>
          /\ \A m \in CompileMethods : backendLog'[m] = backendLog[m]]_vars

\* the second call has returned from the execution instance the first made
CompiledOnceWitness ==
  /\ calls[1].pc = "done"
  /\ calls[2].pc = "done"
  /\ calls[2].backend = "webml"
  /\ backendLog["createModel"] = 1
  /\ backendLog["startCompute"] = 2
  /\ graph.kind = "conv"

(***************************************************************************)
(* C14 (as claimed): for execute calls issued without awaiting, the        *)
(* backend model and the operand table are built once, and operandInfos,   *)
(* the model, the compilation and the execution instance do not change     *)
(* once a compilation has completed.                                       *)
(***************************************************************************)
BuiltOnceUnderOverlap ==
  /\ [](backendLog["createModel"] <= 1 /\ backendLog["createExecution"] <= 1)
  /\ [][compiledWebMLModel =>
          UNCHANGED <<operandInfos, model, compilation, execution>>]_vars

(***************************************************************************)
(* C15 (as claimed): a node of an op outside the accelerated vocabulary    *)
(* adds no operation to the backend model and never makes the compilation  *)
(* fail, wherever it sits in the graph.                                    *)
(***************************************************************************)
UnsupportedOpSkipIsNonFatal ==
  graph.kind = "unsupported" =>
    /\ Len(model.operations) <= 1
    /\ \A c \in CallIds : ~FailedInCompile(c)

(***************************************************************************)
(* C16 (as claimed): when a conv2d, depthwiseConv2d or avgPool node has a  *)
(* padding other than same / valid, a data layout other than NHWC or       *)
(* dilations other than [1, 1, 1, 1], the compilation aborts with an       *)
(* error that names the parameter.                                         *)
(***************************************************************************)
ParamOps == {"conv2d", "depthwiseConv2d", "avgPool"}

HasUnsupportedParam(g) ==
  \E i \in 1..Len(g.nodes) :
    /\ g.nodes[i].op \in ParamOps
    /\ \/ g.nodes[i].pad \notin {"same", "valid"}
       \/ g.nodes[i].dataFormat # "NHWC"
       \/ g.nodes[i].dilations # <<1, 1, 1, 1>>

\* the call has run the model-building pass of compileWebMLModel
PastBuild(c) == calls[c].pending # 0 /\ calls[c].pc # "createModel"

UnsupportedParamAborts ==
  \A c \in CallIds :
    (HasUnsupportedParam(graph) /\ PastBuild(c)) =>
      /\ calls[c].pc = "failed"
      /\ calls[c].error.kind \in {"padding", "dataFormat", "dilations"}

(***************************************************************************)
(* C17 (as claimed): bias-add and activation fusion are optional.  A conv  *)
(* node with supported parameters compiles to exactly one backend          *)
(* operation whether or not an add child and a clipByValue grandchild      *)
(* follow it, and an avgPool node does so with or without a clipByValue    *)
(* child, having no child included.                                        *)
(***************************************************************************)
FusedTypes == {"CONV_2D", "DEPTHWISE_CONV_2D", "AVERAGE_POOL_2D"}

FusedOperations(m) ==
  {i \in 1..Len(m.operations) : m.operations[i].type \in FusedTypes}

FusionIsOptional ==
  (graph.kind \in {"conv", "pool"} /\ ~HasUnsupportedParam(graph)) =>
    /\ \A c \in CallIds : ~FailedInCompile(c)
    /\ compiledWebMLModel => Cardinality(FusedOperations(model)) = 1

(***************************************************************************)
(* C18 (as claimed): an execute call that was given the names of the       *)
(* outputs it wants returns a map with exactly those names, on the         *)
(* interpreted path and on the accelerated path alike.                     *)
(***************************************************************************)
RequestedOutputsReturned ==
  \A c \in CallIds :
    (calls[c].entry = "execute" /\ calls[c].pc = "done" /\ calls[c].hasOutputs)
      => DOMAIN calls[c].result = Range(calls[c].outputs)

(***************************************************************************)
(* C19: concurrent executeAsync calls do not interfere.  Whatever the      *)
(* interleaving, a call dispatches the nodes, in the frames, that it       *)
(* dispatches when it runs alone on the same inputs, returns the same      *)
(* output values, makes as many dispose() calls, and no tensor is disposed *)
(* but one that a finished call made itself.                               *)
(***************************************************************************)
\* the scheduler run to its end with no other call and no operator fault
RECURSIVE runAlone(_, _)
runAlone(call, id) ==
  IF call.pc # "async" \/ call.stack = <<>> THEN call
  ELSE LET s == schedulerStep(call, id, FALSE)
       IN runAlone(s.call, id + s.made)

\* executeAsync of call c's arguments, alone
Alone(c) ==
  finishAsync(runAlone(startAsync(calls[c].inputKeys, calls[c].inputs,
                                  [given |-> calls[c].hasOutputs,
                                   names |-> calls[c].outputs]),
                       nextId))

Trace(log) == [i \in 1..Len(log) |-> <<log[i].node, log[i].ctx>>]

Values(result) == [n \in DOMAIN result |-> result[n].val]

IsPrefix(s, t) == Len(s) <= Len(t) /\ SubSeq(t, 1, Len(s)) = s

\* the tensors call c made: its environment less the inputs and the weights
OwnTensors(c) ==
  {t.id : t \in EnvironmentTensors(c)}
    \ (weightIds \cup InputIds(calls[c].inputKeys, calls[c].inputs))

ConcurrentCallsDoNotInterfere ==
  /\ Range(disposals) \subseteq
       UNION {OwnTensors(c) : c \in {d \in CallIds : calls[d].pc = "done"}}
  /\ \A c \in CallIds :
       calls[c].entry = "executeAsync" =>
         LET alone == Alone(c)
         IN /\ IsPrefix(Trace(calls[c].log), Trace(alone.call.log))
            /\ calls[c].pc # "done" => OwnTensors(c) \cap Range(disposals) = {}
            /\ calls[c].pc = "done" =>
                 /\ Trace(calls[c].log) = Trace(alone.call.log)
                 /\ alone.call.pc = "done"
                 /\ Values(calls[c].result) = Values(alone.call.result)
                 /\ Cardinality({i \in 1..Len(disposals) :
                                   disposals[i] \in OwnTensors(c)})
                      = Len(alone.disposed)

\* two calls both finished and released their intermediates, each having
\* made a tensor while the other was in flight
InterleavedCallsWitness ==
  /\ graph.kind = "chain"
  /\ calls[1].pc = "done" /\ calls[2].pc = "done"
  /\ \E t \in OwnTensors(1) :
       \A u \in InputIds(calls[2].inputKeys, calls[2].inputs) : t > u
  /\ \E t \in OwnTensors(2) :
       \E u \in OwnTensors(1) : t < u
  /\ OwnTensors(1) \cap Range(disposals) # {}
  /\ OwnTensors(2) \cap Range(disposals) # {}

(***************************************************************************)
(* C20: within one run of the dynamic scheduler no node is pushed onto the *)
(* work stack twice under the same frame-qualified name: the items         *)
(* dispatched so far and the items still on the stack are pairwise         *)
(* different.                                                              *)
(***************************************************************************)
\* the frame-qualified names of every item the call has pushed so far
PushedNames(c) ==
  [i \in 1..Len(calls[c].log) |->
     QualifiedName(calls[c].log[i].node, calls[c].log[i].ctx)]
  \o [i \in 1..Len(calls[c].stack) |->
        QualifiedName(calls[c].stack[i].node, calls[c].stack[i].contexts)]

NoDuplicateScheduling ==
  \A c \in CallIds :
    calls[c].entry = "executeAsync" =>
      LET pushed == PushedNames(c)
      IN Cardinality({pushed[i] : i \in 1..Len(pushed)}) = Len(pushed)

\* a node that its parent lists twice as a child has run, once
DuplicateChildWitness ==
  \E c \in CallIds :
    /\ calls[c].entry = "executeAsync" /\ calls[c].pc = "done"
    /\ \E i \in 1..Len(calls[c].log) :
         \E n \in NodeNames(graph) :
           Cardinality({k \in 1..Len(Children(graph, n)) :
                          Children(graph, n)[k] = calls[c].log[i].node}) > 1

(***************************************************************************)
(* C21: the dynamic scheduler terminates.  A call that has entered         *)
(* executeWithControlFlow eventually leaves it: its stack runs empty and   *)
(* the call returns, or an operator threw and the call failed.             *)
(***************************************************************************)
SchedulerTerminates ==
  \A c \in CallIds :
    (calls[c].pc = "async") ~>
      \/ calls[c].pc = "done"
      \/ calls[c].pc = "failed" /\ calls[c].error.kind \in {"op", "type"}

\* a run of the loop graph that went through the body has returned
LoopReturnedWitness ==
  \E c \in CallIds :
    /\ graph.kind = "loop"
    /\ calls[c].entry = "executeAsync" /\ calls[c].pc = "done"
    /\ calls[c].stack = <<>>
    /\ \E i \in 1..Len(calls[c].log) :
         calls[c].log[i].node = "body" /\ ~calls[c].log[i].threw

(***************************************************************************)
(* C22 (as claimed): on a graph without control flow the dynamic scheduler *)
(* agrees with the static compiler.  Every node it has dispatched is a     *)
(* node of compiledOrder, none is dispatched twice, every node is          *)
(* dispatched after the nodes its inputs name, and a call that returned    *)
(* has dispatched every node of compiledOrder.                             *)
(***************************************************************************)
DispatchedSeq(c) == [i \in 1..Len(calls[c].log) |-> calls[c].log[i].node]

\* position i of the dispatch sequence d comes after the nodes its inputs
\* name, the nodes of `given` excepted
AfterItsInputs(d, i, given) ==
  \A k \in 1..Len(NodeOf(graph, d[i]).inputNames) :
    LET n == InputNode(NodeOf(graph, d[i]).inputNames[k])
    IN n \in given \/ \E j \in 1..(i - 1) : d[j] = n

SeededNames(c) ==
  {k[1] : k \in DOMAIN SeedTensorMap(calls[c].inputKeys, calls[c].inputs)}

OperandPositions == 0..(Len(model.operands) - 1)

OperandIndicesMatchTable ==
  /\ \A k \in 1..Len(model.operands) : model.operands[k] = k - 1
  /\ \A name \in DOMAIN operandInfos : operandInfos[name] \in OperandPositions
  /\ model.values \subseteq OperandPositions
  /\ \A k \in 1..Len(model.operations) :
       /\ Range(model.operations[k].inputs) \subseteq OperandPositions
       /\ Range(model.operations[k].outputs) \subseteq OperandPositions
  /\ Range(model.io) \subseteq OperandPositions

(***************************************************************************)
(* C24: the cleanup pass of executeAsync disposes each tensor at most      *)
(* once.  In every step in which a call of executeAsync returns, no tensor *)
(* id occurs twice among the dispose() calls the step made, also when the  *)
(* tensor is stored under several names of the environment.                *)
(***************************************************************************)
\* the dispose() calls of the step
DisposedInStep == SubSeq(disposals', Len(disposals) + 1, Len(disposals'))

CleanupDisposesOnce ==
  [][\A c \in CallIds :
       (calls[c].pc = "async" /\ calls'[c].pc = "done") =>
         Cardinality(Range(DisposedInStep)) = Len(DisposedInStep)]_vars

====
